---- MODULE Spec2Model ----
(***************************************************************************)
(* Model of pkg/e2/subscriptiontask/client.go: the subscription-task       *)
(* client (NewClient, Get, List, Watch, Close), the filter options, and    *)
(* the goroutine Watch starts to relay the stream's events into the        *)
(* caller's channel.                                                       *)
(*                                                                         *)
(* One client and one Watch call (one stream, one sink) are modelled: the  *)
(* code keeps no state across calls, so calls do not interact.             *)
(* The remote service, the stream and the caller reading the sink are the  *)
(* environment: their outcomes are chosen nondeterministically.            *)
(***************************************************************************)
EXTENDS Naturals, Sequences, FiniteSets

\* ---------------------------------------------------------------- bounds
MaxOpts == 2
MaxAddrs == 2
MaxEvents == 2
MaxCap == 1

\* ---------------------------------------------------------------- values
Nil == "nil"
\* subapi.ID / epapi.ID are strings; "" is the zero value (unset filter)
IDs == {"", "a", "b"}
TaskIDs == {"t1", "t2"}
\* a SubscriptionTask value (opaque to the client); Nil is the nil *SubscriptionTask
Tasks == {"task1", "task2"}
Events == {"e1", "e2"}
Addresses == {"h1", "h2"}

RECURSIVE SeqsUpTo(_, _)
SeqsUpTo(S, n) ==
  IF n = 0 THEN {<<>>}
  ELSE LET shorter == SeqsUpTo(S, n - 1)
       IN  shorter \cup {Append(s, x) : s \in {t \in shorter : Len(t) = n - 1}, x \in S}

IsPrefix(s, t) == Len(s) <= Len(t) /\ \A i \in 1..Len(s) : s[i] = t[i]

\* ------------------------------------------------------- filter options
WithSubscriptionID(id) == [kind |-> "filterSubscriptionOption", id |-> id]
WithEndpointID(id) == [kind |-> "filterEndpointOption", id |-> id]
FilterOptions == {WithSubscriptionID(id) : id \in IDs} \cup {WithEndpointID(id) : id \in IDs}

\* listOptions{} / watchOptions{}: both fields at their zero value
listOptions == [subscriptionID |-> "", endpointID |-> ""]
watchOptions == [subscriptionID |-> "", endpointID |-> ""]

FirstWinsApplyList(o, options) ==
  IF o.kind = "filterSubscriptionOption"
  THEN IF options.subscriptionID = "" THEN [options EXCEPT !.subscriptionID = o.id] ELSE options
  ELSE IF options.endpointID = "" THEN [options EXCEPT !.endpointID = o.id] ELSE options

applyList(o, options) ==
  IF o.kind = "filterSubscriptionOption"
  THEN [options EXCEPT !.subscriptionID = o.id]
  ELSE [options EXCEPT !.endpointID = o.id]

applyWatch(o, options) ==
  IF o.kind = "filterSubscriptionOption"
  THEN [options EXCEPT !.subscriptionID = o.id]
  ELSE [options EXCEPT !.endpointID = o.id]

\* for _, opt := range opts { opt.applyList(options) }
RECURSIVE ListLoop(_, _, _)
ListLoop(os, i, options) ==
  IF i > Len(os) THEN options ELSE ListLoop(os, i + 1, applyList(os[i], options))

RECURSIVE WatchLoop(_, _, _)
WatchLoop(os, i, options) ==
  IF i > Len(os) THEN options ELSE WatchLoop(os, i + 1, applyWatch(os[i], options))

ListRequest(os) ==
  LET options == ListLoop(os, 1, listOptions)
  IN  [SubscriptionID |-> options.subscriptionID, EndpointID |-> options.endpointID]

WatchRequest(os) ==
  LET options == WatchLoop(os, 1, watchOptions)
  IN  [SubscriptionID |-> options.subscriptionID, EndpointID |-> options.endpointID]

\* ---------------------------------------------------------------- state
VARIABLES
  opts,          \* the options passed to List and to Watch (opts ...ListOption)
  dst,           \* Destination.Addrs passed to NewClient
  chanCap,       \* capacity of the channel ch passed to Watch (0: unbuffered)
  panic,         \* "none", or the run-time panic that ended the program
  newClientRet,  \* what NewClient returned: <<>> before the call, then <<[client, err]>>
  dialed,        \* the addresses grpc.DialContext was called with, in order
  conn,          \* localClient.conn: "none", "open", "closed"
  getRPCs,       \* the GetSubscriptionTask requests of the latest Get call
  getRet,        \* what the latest Get returned: <<>> before a call, then <<[task, err]>>
  listRPCs,      \* the ListSubscriptionTasks requests of the latest List call
  listRet,       \* what the latest List returned: <<>> before a call, then <<[tasks, err]>>
  watchRPCs,     \* the WatchSubscriptionTasks (stream-open) requests issued
  watchRet,      \* what Watch returned: "uncalled", Nil or an error
  goroutines,    \* number of relaying goroutines started
  pc,            \* the goroutine's position: "idle", "recv", "send", "done"
  resp,          \* the goroutine's resp.Event awaiting the send on ch
  lastRecv,      \* what the latest stream.Recv() returned
  delivered,     \* the events stream.Recv() has returned, in order
  sent,          \* the events the channel has accepted from the goroutine
  buf,           \* the channel's buffer
  chClosed,      \* whether ch is closed
  closeCalls,    \* number of close(ch) statements executed
  logged,        \* number of log.Error calls
  ctxCancelled,  \* whether the context passed to Watch is cancelled
  callerWaiting  \* whether the caller is parked in a receive on ch

inputs == <<opts, dst, chanCap>>
clientVars == <<newClientRet, dialed, conn>>
getVars == <<getRPCs, getRet>>
listVars == <<listRPCs, listRet>>
chanVars == <<buf, chClosed, closeCalls, callerWaiting>>
taskVars == <<pc, resp, lastRecv, delivered, sent, logged>>
watchVars == <<watchRPCs, watchRet, goroutines>>
vars == <<inputs, panic, clientVars, getVars, listVars, watchVars, taskVars, chanVars,
          ctxCancelled>>

OptSeqs == SeqsUpTo(FilterOptions, MaxOpts)
Destinations == SeqsUpTo(Addresses, MaxAddrs)
Capacities == 0..MaxCap

InitWith(O, D, C) ==
  /\ opts \in O
  /\ dst \in D
  /\ chanCap \in C
  /\ panic = "none"
  /\ newClientRet = <<>>
  /\ dialed = <<>>
  /\ conn = "none"
  /\ getRPCs = <<>>
  /\ getRet = <<>>
  /\ listRPCs = <<>>
  /\ listRet = <<>>
  /\ watchRPCs = <<>>
  /\ watchRet = "uncalled"
  /\ goroutines = 0
  /\ pc = "idle"
  /\ resp = Nil
  /\ lastRecv = "none"
  /\ delivered = <<>>
  /\ sent = <<>>
  /\ buf = <<>>
  /\ chClosed = FALSE
  /\ closeCalls = 0
  /\ logged = 0
  /\ ctxCancelled = FALSE
  /\ callerWaiting = FALSE

\* an unrecovered panic ends the whole program
Alive == panic = "none"

\* ------------------------------------------------------------- NewClient
DialWithFailover(addrs, dialOK) == IF dialOK THEN <<addrs[1]>> ELSE addrs

\* grpc.DialContext(ctx, dst.Addrs[0], opts...): the dial attempts made
DialAttempts(addrs, dialOK) == <<addrs[1]>>

NewClientCredentialError ==
  /\ newClientRet' = <<[client |-> "empty", err |-> "CredentialError"]>>
  /\ UNCHANGED <<dialed, conn, panic>>

NewClientNoAddress ==
  /\ dst = <<>>
  /\ panic' = "index out of range"
  /\ UNCHANGED <<newClientRet, dialed, conn>>

NewClientDial(dialOK) ==
  /\ dst # <<>>
  /\ dialed' = DialAttempts(dst, dialOK)
  /\ IF dialOK
     THEN newClientRet' = <<[client |-> "localClient", err |-> Nil]>> /\ conn' = "open"
     ELSE newClientRet' = <<[client |-> "empty", err |-> "ConnectionError"]>> /\ conn' = conn
  /\ UNCHANGED panic

NewClient ==
  /\ Alive
  /\ newClientRet = <<>>
  /\ \/ NewClientCredentialError
     \/ NewClientNoAddress
     \/ \E dialOK \in BOOLEAN : NewClientDial(dialOK)
  /\ UNCHANGED <<inputs, getVars, listVars, watchVars, taskVars, chanVars, ctxCancelled>>

\* the methods below are called on the client NewClient returned without error
Ready == Alive /\ conn # "none"

\* ------------------------------------------------------------------- Get
\* what c.client.GetSubscriptionTask can return: (resp, nil) or (nil, err);
\* resp is <<>> for the nil pointer and <<r>> for a pointer to r
GetOutcomes ==
  {[resp |-> <<[Task |-> t]>>, err |-> Nil] : t \in Tasks}
  \cup {[resp |-> <<>>, err |-> e] : e \in {"NotFound", "Unavailable"}}

GetWithRetry(req, out) ==
  IF out.err # Nil THEN <<[req |-> req, out |-> out], [req |-> req, out |-> out]>>
  ELSE <<[req |-> req, out |-> out]>>

\* resp, err := c.client.GetSubscriptionTask(ctx, req): the requests issued
GetSubscriptionTask(req, out) == <<[req |-> req, out |-> out]>>

GetCollapseErrors(out) ==
  IF out.err # Nil THEN [task |-> Nil, err |-> "Unavailable"]
  ELSE [task |-> out.resp[1].Task, err |-> Nil]

\* if err != nil { return nil, err }; return resp.Task, nil
GetResult(out) ==
  IF out.err # Nil THEN [task |-> Nil, err |-> out.err]
  ELSE [task |-> out.resp[1].Task, err |-> Nil]

Get ==
  /\ Ready
  /\ \E id \in TaskIDs, out \in GetOutcomes :
       /\ getRPCs' = GetSubscriptionTask([ID |-> id], out)
       /\ getRet' = <<GetResult(out)>>
  /\ UNCHANGED <<inputs, panic, clientVars, listVars, watchVars, taskVars, chanVars,
                 ctxCancelled>>

\* ------------------------------------------------------------------ List
\* resp.Tasks: any list the service returns, duplicates and order included
TaskLists == {<<>>, <<"task1", "task2">>, <<"task2", "task1">>, <<"task1", "task1">>}

ListOutcomes ==
  {[resp |-> <<[Tasks |-> ts]>>, err |-> Nil] : ts \in TaskLists}
  \cup {[resp |-> <<>>, err |-> "Unavailable"]}

\* resp, err := c.client.ListSubscriptionTasks(ctx, req): the requests issued
ListSubscriptionTasks(req, out) == <<[req |-> req, out |-> out]>>

\* if err != nil { return nil, err }; return resp.Tasks, nil
ListResult(out) ==
  IF out.err # Nil THEN [tasks |-> <<>>, err |-> out.err]
  ELSE [tasks |-> out.resp[1].Tasks, err |-> Nil]

List ==
  /\ Ready
  /\ \E out \in ListOutcomes :
       /\ listRPCs' = ListSubscriptionTasks(ListRequest(opts), out)
       /\ listRet' = <<ListResult(out)>>
  /\ UNCHANGED <<inputs, panic, clientVars, getVars, watchVars, taskVars, chanVars,
                 ctxCancelled>>

\* ----------------------------------------------------------------- Close
Close ==
  /\ Ready
  /\ conn' = "closed"
  /\ UNCHANGED <<inputs, panic, newClientRet, dialed, getVars, listVars, watchVars,
                 taskVars, chanVars, ctxCancelled>>

\* ------------------------------------------------------------ channel ch
\* close(ch): closing a closed channel panics; a parked receiver is woken
CloseCh ==
  /\ closeCalls' = closeCalls + 1
  /\ IF chClosed
     THEN panic' = "close of closed channel" /\ UNCHANGED <<chClosed, callerWaiting>>
     ELSE chClosed' = TRUE /\ callerWaiting' = FALSE /\ UNCHANGED panic
  /\ UNCHANGED buf

\* ch <- v can proceed: a receiver is parked, or the buffer has room
\* (or ch is closed, and the send panics)
CanSend == chClosed \/ callerWaiting \/ Len(buf) < chanCap

\* ch <- v
SendCh(v) ==
  /\ UNCHANGED <<chClosed, closeCalls>>
  /\ IF chClosed
     THEN panic' = "send on closed channel" /\ UNCHANGED <<buf, callerWaiting, sent>>
     ELSE /\ sent' = Append(sent, v)
          /\ IF callerWaiting
             THEN callerWaiting' = FALSE /\ buf' = buf
             ELSE buf' = Append(buf, v) /\ callerWaiting' = callerWaiting
          /\ UNCHANGED panic

\* ----------------------------------------------------------------- Watch
\* stream, err := c.client.WatchSubscriptionTasks(ctx, &req): the requests issued
WatchSubscriptionTasks(req, ok) == <<[req |-> req, ok |-> ok]>>

WatchOpenFailedNoClose ==
  /\ watchRet' = "Unavailable"
  /\ UNCHANGED <<goroutines, taskVars, chanVars, panic>>

\* if err != nil { close(ch); return err }
WatchOpenFailed ==
  /\ CloseCh
  /\ watchRet' = "Unavailable"
  /\ UNCHANGED <<goroutines, taskVars>>

\* go func() { ... }(); return nil
WatchOpened ==
  /\ goroutines' = goroutines + 1
  /\ pc' = "recv"
  /\ watchRet' = Nil
  /\ UNCHANGED <<resp, lastRecv, delivered, sent, logged, chanVars, panic>>

Watch ==
  /\ Ready
  /\ watchRet = "uncalled"
  /\ \E ok \in BOOLEAN :
       /\ watchRPCs' = WatchSubscriptionTasks(WatchRequest(opts), ok)
       /\ IF ok THEN WatchOpened ELSE WatchOpenFailed
  /\ UNCHANGED <<inputs, clientVars, getVars, listVars, ctxCancelled>>

\* ------------------------------------------- the goroutine Watch starts
StreamEnded == lastRecv \in {"EOF", "Canceled"}

\* What resp, err := stream.Recv() can return: an event (resp.Event), "EOF"
\* (io.EOF), "Canceled" (context.Canceled) or "Err" (any other error). A stream
\* that ended keeps returning its error; a stream whose context is cancelled
\* returns context.Canceled.
RecvOutcomes ==
  IF StreamEnded THEN {lastRecv}
  ELSE IF ctxCancelled THEN {"Canceled"}
  ELSE {"EOF", "Err"} \cup (IF Len(delivered) < MaxEvents THEN Events ELSE {})

OnStreamEndNoBreak ==
  /\ CloseCh
  /\ pc' = "recv"

\* if err == io.EOF || err == context.Canceled { close(ch); break }
OnStreamEnd ==
  /\ CloseCh
  /\ pc' = "done"

\* Recv returned an event: the loop reaches ch <- resp.Event
RecvEvent ==
  /\ Alive
  /\ pc = "recv"
  /\ \E e \in RecvOutcomes \cap Events :
       /\ resp' = e
       /\ delivered' = Append(delivered, e)
  /\ lastRecv' = "event"
  /\ pc' = "send"
  /\ UNCHANGED <<inputs, panic, clientVars, getVars, listVars, watchVars, sent, logged,
                 chanVars, ctxCancelled>>

\* Recv returned io.EOF or context.Canceled
RecvEnd ==
  /\ Alive
  /\ pc = "recv"
  /\ \E err \in RecvOutcomes \cap {"EOF", "Canceled"} : lastRecv' = err
  /\ OnStreamEnd
  /\ UNCHANGED <<inputs, clientVars, getVars, listVars, watchVars, resp, delivered, sent,
                 logged, ctxCancelled>>

\* Recv returned (nil, err) with another error: log.Error(...), then the loop
\* falls through to ch <- resp.Event, which dereferences the nil resp
RecvError ==
  /\ Alive
  /\ pc = "recv"
  /\ "Err" \in RecvOutcomes
  /\ lastRecv' = "Err"
  /\ logged' = logged + 1
  /\ resp' = Nil
  /\ panic' = "nil pointer dereference"
  /\ UNCHANGED <<inputs, clientVars, getVars, listVars, watchVars, pc, delivered, sent,
                 chanVars, ctxCancelled>>

TaskSendDuplicate ==
  /\ Alive
  /\ pc = "send"
  /\ CanSend
  /\ SendCh(resp)
  /\ UNCHANGED <<inputs, clientVars, getVars, listVars, watchVars, pc, resp, lastRecv,
                 delivered, logged, ctxCancelled>>

TaskSendOrDone ==
  /\ Alive
  /\ pc = "send"
  /\ IF ctxCancelled
     THEN CloseCh /\ pc' = "done" /\ UNCHANGED sent
     ELSE CanSend /\ SendCh(resp) /\ pc' = "recv"
  /\ resp' = Nil
  /\ UNCHANGED <<inputs, clientVars, getVars, listVars, watchVars, lastRecv, delivered,
                 logged, ctxCancelled>>

\* ch <- resp.Event: blocks until the channel accepts the event, then loops
TaskSend ==
  /\ Alive
  /\ pc = "send"
  /\ CanSend
  /\ SendCh(resp)
  /\ pc' = "recv"
  /\ resp' = Nil
  /\ UNCHANGED <<inputs, clientVars, getVars, listVars, watchVars, lastRecv, delivered,
                 logged, ctxCancelled>>

\* ------------------------------------------------------------ environment
\* the caller receives from ch: it takes a buffered event ...
CallerTake ==
  /\ Alive
  /\ buf # <<>>
  /\ buf' = Tail(buf)
  /\ UNCHANGED <<inputs, panic, clientVars, getVars, listVars, watchVars, taskVars,
                 chClosed, closeCalls, callerWaiting, ctxCancelled>>

\* ... or parks in <-ch until the goroutine sends or closes
CallerPark ==
  /\ Alive
  /\ buf = <<>>
  /\ ~chClosed
  /\ ~callerWaiting
  /\ callerWaiting' = TRUE
  /\ UNCHANGED <<inputs, panic, clientVars, getVars, listVars, watchVars, taskVars, buf,
                 chClosed, closeCalls, ctxCancelled>>

\* the caller cancels the context it passed to Watch
Cancel ==
  /\ Alive
  /\ ~ctxCancelled
  /\ ctxCancelled' = TRUE
  /\ UNCHANGED <<inputs, panic, clientVars, getVars, listVars, watchVars, taskVars,
                 chanVars>>

\* ------------------------------------------------------- specifications
Task == RecvEvent \/ RecvEnd \/ RecvError \/ TaskSend

Next ==
  \/ NewClient
  \/ Get
  \/ List
  \/ Close
  \/ Watch
  \/ RecvEvent
  \/ RecvEnd
  \/ RecvError
  \/ TaskSend
  \/ CallerTake
  \/ CallerPark
  \/ Cancel

\* one client on one address, Watch without options, any channel capacity
Init == InitWith({<<>>}, {<<"h1">>}, Capacities)

Spec == Init /\ [][Next]_vars

\* the Go scheduler runs a runnable goroutine; nothing makes the caller read
FairSpec == Spec /\ WF_vars(Task)

\* the API calls alone (no goroutine step, no caller activity on the sink)
NextCalls ==
  \/ NewClient
  \/ Get
  \/ List
  \/ Close
  \/ Watch

\* every option sequence up to MaxOpts, passed to both List and Watch
SpecFilter == InitWith(OptSeqs, {<<"h1">>}, {0}) /\ [][NextCalls]_vars

\* every destination list up to MaxAddrs
SpecClient == InitWith({<<>>}, Destinations, {0}) /\ [][NextCalls]_vars

\* ================================================================ claims
Opened == watchRet = Nil

\* C1: after a successful Watch, the events sent to the sink are always a
\* prefix of the events the stream delivered, in the same order (nothing
\* reordered, duplicated, skipped or invented).
C1_SentIsPrefixOfDelivered == Opened => IsPrefix(sent, delivered)

C1_Witness ==
  /\ Opened
  /\ Len(sent) = 2
  /\ sent[1] # sent[2]
  /\ sent = delivered

\* C2: for a Watch whose stream opened, close(ch) is executed at most once,
\* the sink is closed only once a receive returned the end of the stream
\* (io.EOF or context.Canceled), and nothing is sent after the close.
C2_ClosedOnceAtStreamEnd ==
  /\ [](Opened => /\ closeCalls <= 1
                  /\ chClosed => StreamEnded)
  /\ [][(Opened /\ chClosed) => sent' = sent]_vars

C2_Witness ==
  /\ Opened
  /\ chClosed
  /\ closeCalls = 1
  /\ lastRecv = "EOF"
  /\ Len(sent) = 2

\* C3 (as claimed): once the context of an open watch is cancelled, the sink is
\* eventually closed and the goroutine eventually terminates, whatever the
\* caller does with the sink, and nothing is sent after the close.
C3_CancelEventuallyClosesSink ==
  /\ (Opened /\ ctxCancelled /\ ~StreamEnded) ~> (chClosed /\ pc = "done")
  /\ [][(Opened /\ ctxCancelled /\ chClosed) => sent' = sent]_vars

\* C4 (as claimed): after a receive failed with an error other than io.EOF and
\* context.Canceled, the goroutine has logged it and is back at the next
\* receive: not crashed, sink not closed, nothing sent for the failed receive.
C4_LogAndContinue ==
  lastRecv = "Err" =>
    /\ logged >= 1
    /\ Alive
    /\ pc = "recv"
    /\ ~chClosed
    /\ IsPrefix(sent, delivered)

\* C5: Watch returns an error exactly when the stream-open request failed;
\* then the sink is already closed and no goroutine was started (nothing is
\* sent); when the stream opened Watch returns nil and exactly one goroutine
\* was started.
C5_WatchErrorIffOpenFailed ==
  watchRet # "uncalled" =>
    /\ Len(watchRPCs) = 1
    /\ (watchRet # Nil) <=> ~watchRPCs[1].ok
    /\ (watchRet # Nil) => /\ chClosed
                           /\ closeCalls = 1
                           /\ goroutines = 0
                           /\ pc = "idle"
                           /\ sent = <<>>
    /\ (watchRet = Nil) => goroutines = 1

C5_Witness ==
  /\ watchRet = "Unavailable"
  /\ ~watchRPCs[1].ok
  /\ chClosed
  /\ ctxCancelled

\* C6: the filter fields of the List request and of the Watch request are the
\* left-to-right fold of the options: each field is the id of the last option
\* that targets it, unset ("") when none does; List and Watch agree.
LastIndex(os, kind) ==
  LET idx == {i \in 1..Len(os) : os[i].kind = kind}
  IN  IF idx = {} THEN 0 ELSE CHOOSE i \in idx : \A j \in idx : j <= i

LastID(os, kind) == IF LastIndex(os, kind) = 0 THEN "" ELSE os[LastIndex(os, kind)].id

Folded(os) ==
  [SubscriptionID |-> LastID(os, "filterSubscriptionOption"),
   EndpointID |-> LastID(os, "filterEndpointOption")]

C6_FiltersAreFoldOfOptions ==
  /\ listRPCs # <<>> => listRPCs[1].req = Folded(opts)
  /\ watchRPCs # <<>> => watchRPCs[1].req = Folded(opts)
  /\ (listRPCs # <<>> /\ watchRPCs # <<>>) => listRPCs[1].req = watchRPCs[1].req

C6_Witness ==
  /\ listRPCs # <<>>
  /\ watchRPCs # <<>>
  /\ Len(opts) = 2
  /\ opts[1].kind = opts[2].kind
  /\ opts[1].id = "a"
  /\ opts[2].id = "b"

\* C7: Get returns the outcome of its one request: the service's error as it
\* is (not-found stays distinct from a transport error) with no task, or the
\* task of the response with no error.
C7_GetReturnsRequestOutcome ==
  getRet # <<>> =>
    /\ Len(getRPCs) = 1
    /\ getRet[1].err = getRPCs[1].out.err
    /\ getRPCs[1].out.err # Nil => getRet[1].task = Nil
    /\ getRPCs[1].out.err = Nil => getRet[1].task = getRPCs[1].out.resp[1].Task

C7_Witness ==
  /\ getRet # <<>>
  /\ getRet[1].err = "NotFound"
  /\ getRet[1].task = Nil

\* C8: with more than one address NewClient dials at most once, the first
\* address only: a failed dial is reported without trying another address, and
\* a credential failure is reported without dialing.
C8_DialsFirstAddressOnly ==
  (newClientRet # <<>> /\ Len(dst) > 1) =>
    /\ Len(dialed) <= 1
    /\ \A i \in 1..Len(dialed) : dialed[i] = dst[1]
    /\ newClientRet[1].err = "CredentialError" => dialed = <<>>
    /\ newClientRet[1].err = "ConnectionError" => dialed = <<dst[1]>>
    /\ newClientRet[1].err = Nil => dialed = <<dst[1]>>

C8_Witness ==
  /\ Len(dst) > 1
  /\ dst[1] # dst[2]
  /\ newClientRet # <<>>
  /\ newClientRet[1].err = "ConnectionError"
  /\ dialed = <<dst[1]>>

\* C9: each call of Get, List and Watch issued exactly one remote request (one
\* stream-open for Watch), also after the request failed or the stream ended.
C9_OneRequestPerCall ==
  /\ Len(getRPCs) = (IF getRet = <<>> THEN 0 ELSE 1)
  /\ Len(listRPCs) = (IF listRet = <<>> THEN 0 ELSE 1)
  /\ Len(watchRPCs) = (IF watchRet = "uncalled" THEN 0 ELSE 1)

C9_Witness ==
  /\ getRet # <<>>
  /\ getRet[1].err # Nil
  /\ listRet # <<>>
  /\ listRet[1].err # Nil
  /\ Opened
  /\ StreamEnded
  /\ pc = "done"

\* C10: a step taken while the goroutine is at the send neither receives from
\* the stream nor closes the sink, and the sink of an open watch is closed only
\* when every event received so far has been accepted by the sink.
C10_CloseOnlyAfterAllSent ==
  /\ []((Opened /\ chClosed) => sent = delivered)
  /\ [][pc = "send" => /\ delivered' = delivered
                       /\ lastRecv' = lastRecv
                       /\ chClosed' = chClosed
                       /\ closeCalls' = closeCalls]_vars

C10_Witness ==
  /\ pc = "send"
  /\ ~CanSend
  /\ ctxCancelled
  /\ Len(delivered) = Len(sent) + 1

====
